---- MODULE Spec2Model ----
(***************************************************************************)
(* The generate-render-repair pipeline of teachme:                         *)
(* ManimCodeGenerator.generate and _generate_and_render_with_retry         *)
(* (src/teachme/agents/animation.py), the script validator and renderer    *)
(* contract of ManimRunner (src/teachme/utils/manim_runner.py), the brief  *)
(* expander SubjectMatterAgent (src/teachme/agents/subject_matter.py) and  *)
(* the exception hierarchy (src/teachme/exceptions.py).                    *)
(*                                                                         *)
(* Spec: one behaviour is one invocation of generate.  Every awaited       *)
(* collaborator call (tool check, LLM call, render subprocess) is one      *)
(* action; what the collaborator answers is chosen with \E.                *)
(* SpecValidator: ManimRunner.extract_scene_name on its own.               *)
(* SpecArchiver: ManimCodeGenerator._generate_script_filename on its own.  *)
(* SpecCli: one run of the animate command (src/teachme/cli.py) around     *)
(* the invocations of generate it makes.                                   *)
(* SpecLive: Spec under weak fairness, for termination.                    *)
(* SpecRunner: ManimRunner.render_animation on its own.                    *)
(* SpecSubjectMatter: SubjectMatterAgent.generate and process_with_timeout *)
(* on their own.                                                           *)
(* SpecConcurrent: two overlapping invocations of generate on one          *)
(* generator object, with the files of the two output directories.         *)
(***************************************************************************)
EXTENDS Integers, Sequences, FiniteSets, TLC

\* ------------------------------------------------------------------ bounds

\* number of distinct description texts the LLM may put in a script
NumDescriptions ==
    2

\* number of class definitions in a source text given to the validator
MaxClasses ==
    2

\* a prompt given to the archiver is a word repeated: length of the word
MaxWordLen ==
    2

\* a prompt given to the archiver is a word repeated: number of repetitions
MaxRepeats ==
    30

\* ------------------------------------------------------- program constants

\* RenderConfig.MAX_RETRY_ATTEMPTS
MAX_RETRY_ATTEMPTS ==
    5

\* AnimationRenderError.__init__ default of the parameter attempt
DefaultAttempt ==
    1

\* AnimationRenderError.__init__ default of the parameter max_attempts
DefaultMaxAttempts ==
    5

\* the empty string "" as a response id (getattr(response, "id", ""))
EmptyId ==
    0

\* None as a response id (no previous response)
NoneId ==
    -1

\* the first identifier the LLM gateway hands out
FirstId ==
    EmptyId + 1

\* number of LLM stages of SubjectMatterAgent.generate
NumStages ==
    3

\* AnimationConfig.MIN_DURATION, in seconds
MIN_DURATION ==
    15

\* AnimationConfig.MAX_FILENAME_LENGTH
MAX_FILENAME_LENGTH ==
    50

\* absent optional text (None)
None ==
    "None"

\* --------------------------------------------------- generated source text

\* The source text of a script, as ast.parse sees it: whether it parses,
\* the class definitions in ast.walk order with their bases, its import
\* statements and its call expressions.
NameBase(id) ==
    [kind |-> "Name", id |-> id]

AttributeBase(attr) ==
    [kind |-> "Attribute", id |-> attr]

ClassDef(name, bases) ==
    [name |-> name, bases |-> bases]

\* import a.b: an ast.Import alias whose name is the dotted path a.b
Import(module) ==
    [form |-> "Import", module |-> module]

\* from a.b import c: an ast.ImportFrom node whose module is a.b
ImportFrom(module) ==
    [form |-> "ImportFrom", module |-> module]

\* f(...): an ast.Call whose func is the ast.Name f
NameCall(id) ==
    [kind |-> "Name", id |-> id]

\* x.f(...): an ast.Call whose func is an ast.Attribute with attr f
AttributeCall(id) ==
    [kind |-> "Attribute", id |-> id]

\* from manim import *
ManimImport ==
    ImportFrom(<<"manim">>)

SourceText(parses, classes, imports, calls) ==
    [parses |-> parses, classes |-> classes, imports |-> imports, calls |-> calls]

\* text that ast.parse rejects
SrcSyntaxError ==
    SourceText(FALSE, <<>>, {}, {})

\* two classes, neither with a recognized base
SrcNoScene ==
    SourceText(TRUE,
               << ClassDef("A", <<NameBase("Helper")>>),
                  ClassDef("B", <<AttributeBase("VGroup")>>) >>,
               {ManimImport}, {})

\* class A(Scene)
SrcSceneA ==
    SourceText(TRUE, << ClassDef("A", <<NameBase("Scene")>>) >>, {ManimImport}, {})

\* class A(Helper) followed by class B(manim.ThreeDScene)
SrcSceneB ==
    SourceText(TRUE,
               << ClassDef("A", <<NameBase("Helper")>>),
                  ClassDef("B", <<NameBase("Mixin"), AttributeBase("ThreeDScene")>>) >>,
               {ManimImport}, {})

\* class A(MovingCameraScene) that imports os and calls open
SrcUnsafeA ==
    SourceText(TRUE, << ClassDef("A", <<NameBase("MovingCameraScene")>>) >>,
               {ManimImport, Import(<<"os">>)}, {NameCall("open")})

Sources ==
    {SrcSyntaxError, SrcNoScene, SrcSceneA, SrcSceneB, SrcUnsafeA}

\* the names an LLM declares as scene_name
DeclaredNames ==
    {"A", "B"}

Descriptions ==
    1..NumDescriptions

\* ManimScriptResponse (filename and fix_description are never read)
ManimScriptResponse(scene_name, description, code, estimated_duration) ==
    [scene_name |-> scene_name, description |-> description, code |-> code,
     estimated_duration |-> estimated_duration]

\* the estimated_duration, in seconds, that comes with the d-th description
DurationOf(d) ==
    MIN_DURATION + d

\* every structured answer the LLM gateway may parse into ManimScriptResponse
LLMScripts ==
    { ManimScriptResponse(n, d, c, DurationOf(d)) :
        n \in DeclaredNames, d \in Descriptions, c \in Sources }

NoScript ==
    ManimScriptResponse(None, 0, SrcSyntaxError, 0)

\* ------------------------------------------------------------ ManimRunner

VALID_SCENE_CLASSES ==
    {"Scene", "MovingCameraScene", "ThreeDScene"}

DANGEROUS_IMPORTS ==
    {"os", "subprocess", "sys", "shutil"}

DANGEROUS_FUNCTIONS ==
    {"open", "exec", "eval", "__import__"}

\* a base that is some other expression, e.g. Generic[Scene] or make(Scene)
OtherBase(id) ==
    [kind |-> "Other", id |-> id]

\* the test of the bases without the branch for ast.Attribute
IsSceneBaseNameOnly(base) ==
    /\ base.kind = "Name"
    /\ base.id \in VALID_SCENE_CLASSES

\* one base of a class definition names a scene class, directly or qualified
IsSceneBase(base) ==
    /\ base.kind \in {"Name", "Attribute"}
    /\ base.id \in VALID_SCENE_CLASSES

\* the class definition inherits from a scene class
InheritsScene(cls) ==
    \E i \in DOMAIN cls.bases : IsSceneBase(cls.bases[i])

\* ManimRunner.extract_scene_name: the first class in walk order that
\* inherits from a scene class; None when there is none or the text does
\* not parse (the SyntaxError is caught and None returned)
extract_scene_name(code) ==
    IF ~code.parses
      THEN None
      ELSE LET hits == { i \in DOMAIN code.classes : InheritsScene(code.classes[i]) }
           IN  IF hits = {}
                 THEN None
                 ELSE code.classes[CHOOSE i \in hits : \A j \in hits : i <= j].name

\* dangerous_nodes: the imports whose dotted name is, as a whole, one of
\* the listed modules, and the calls of a plain name that is listed
DangerousNodes(code) ==
    { i \in code.imports : Len(i.module) = 1 /\ i.module[1] \in DANGEROUS_IMPORTS }
      \cup { c \in code.calls : c.kind = "Name" /\ c.id \in DANGEROUS_FUNCTIONS }

\* ManimRunner.validate_code: (is_valid, error_msg)
validate_code(code) ==
    IF ~code.parses
      THEN [is_valid |-> FALSE, error_msg |-> "Syntax error"]
      ELSE IF DangerousNodes(code) # {}
             THEN [is_valid |-> FALSE,
                   error_msg |-> "Potentially dangerous operations detected"]
             ELSE [is_valid |-> TRUE, error_msg |-> None]

\* the diagnostics render_animation returns after launching manim
RenderDiagnostics ==
    {"Manim error", "No video file generated", "Manim rendering timed out",
     "Manim execution error"}

\* None as a path
NoPath ==
    <<>>

\* final_path = output_dir / f"{scene_name}.mp4"
FinalPath(scene_name) ==
    <<"animations", scene_name, "mp4">>

\* what the subprocess does: produces a video, or fails with a diagnostic
ProcessOutcomes ==
    {[ok |-> TRUE, diagnostic |-> None]}
      \cup {[ok |-> FALSE, diagnostic |-> d] : d \in RenderDiagnostics}

\* ManimRunner.render_animation: (success, video_path, error_msg, launched)
\* for the given script and the given behaviour of the subprocess
render_animation(code, scene_name, proc) ==
    LET v == validate_code(code)
    IN  IF ~v.is_valid
          THEN [success |-> FALSE, video_path |-> NoPath, error_msg |-> v.error_msg,
                launched |-> FALSE]
          ELSE IF proc.ok
                 THEN [success |-> TRUE, video_path |-> FinalPath(scene_name),
                       error_msg |-> None, launched |-> TRUE]
                 ELSE [success |-> FALSE, video_path |-> NoPath,
                       error_msg |-> proc.diagnostic, launched |-> TRUE]

\* ------------------------------------------------------------- exceptions

\* A raised exception: its class, its message, the context the class
\* records, and the classes of the exceptions it was raised from (the
\* __cause__ chain, nearest first).
Exception(kind, message, attempt, max_attempts, scene_name, error_output, prompt_type, causes) ==
    [kind |-> kind, message |-> message, attempt |-> attempt,
     max_attempts |-> max_attempts, scene_name |-> scene_name,
     error_output |-> error_output, prompt_type |-> prompt_type, causes |-> causes]

NoException ==
    Exception(None, None, 0, 0, None, None, None, <<>>)

\* AnimationRenderError(message, attempt, max_attempts, scene_name, error_output)
AnimationRenderError(message, attempt, max_attempts, scene_name, error_output, causes) ==
    Exception("AnimationRenderError", message, attempt, max_attempts, scene_name,
              error_output, None, causes)

\* LLMGenerationError(message, model, prompt_type)
LLMGenerationError(message, prompt_type, causes) ==
    Exception("LLMGenerationError", message, 0, 0, None, None, prompt_type, causes)

\* ManimInstallationError(message, version_info)
ManimInstallationError(message) ==
    Exception("ManimInstallationError", message, 0, 0, None, None, None, <<>>)

\* SubjectMatterAnalysisError(message, stage, user_prompt)
SubjectMatterAnalysisError(message, causes) ==
    Exception("SubjectMatterAnalysisError", message, 0, 0, None, None, None, causes)

\* the classes of exceptions.py and the built-in ones met here; every class
\* of exceptions.py derives from TeachMeError, which derives from Exception
ExceptionClasses ==
    {"TeachMeError", "ManimInstallationError", "AnimationRenderError",
     "LLMGenerationError", "ScriptValidationError", "SubjectMatterAnalysisError",
     "RuntimeError", "KeyError", "OSError", "TimeoutError", "Exception"}

\* the proper superclasses of a class among ExceptionClasses
Superclasses(kind) ==
    IF kind \in {"ManimInstallationError", "AnimationRenderError", "LLMGenerationError",
                 "ScriptValidationError", "SubjectMatterAnalysisError"}
      THEN {"TeachMeError", "Exception"}
      ELSE IF kind = "Exception" THEN {} ELSE {"Exception"}

\* isinstance(e, cls), which is what pytest.raises(cls) and "except cls" test
IsInstance(e, cls) ==
    cls = e.kind \/ cls \in Superclasses(e.kind)

\* raise X from e: the cause chain of X
From(e) ==
    <<e.kind>> \o e.causes

\* the except clauses without the re-raise of the custom exceptions
GenerateExceptWrapsAll(e) ==
    AnimationRenderError("Animation generation failed", DefaultAttempt,
                         DefaultMaxAttempts, None, None, From(e))

\* the except clauses of ManimCodeGenerator.generate: the two custom
\* exceptions pass, anything else is wrapped in an AnimationRenderError
\* built with the default attempt and max_attempts
GenerateExcept(e) ==
    IF e.kind \in {"ManimInstallationError", "AnimationRenderError"}
      THEN e
      ELSE AnimationRenderError("Animation generation failed", DefaultAttempt,
                                DefaultMaxAttempts, None, None, From(e))

\* ---------------------------------------------------------- LLM gateway

\* ResponseResult(content, response_id)
ResponseResult(content, response_id) ==
    [content |-> content, response_id |-> response_id]

\* What llm_client.generate does for one structured call: it raises
\* LLMGenerationError, or it returns a ResponseResult whose response_id is
\* the identifier of the response, "" when the response carries none.
GatewayAnswers(fresh) ==
    {[raises |-> TRUE, result |-> ResponseResult(NoScript, EmptyId)]}
      \cup {[raises |-> FALSE, result |-> ResponseResult(s, r)] :
               s \in LLMScripts, r \in {EmptyId, fresh}}

\* Python truthiness of a response id: None and "" are falsy
Truthy(response_id) ==
    response_id \notin {EmptyId, NoneId}

\* x or y
Or(x, y) ==
    IF Truthy(x) THEN x ELSE y

\* the declared name is left as the LLM gave it
FixSceneNameKept(response, extracted_scene) ==
    response

\* if extracted_scene != response.scene_name: response.scene_name = extracted_scene
FixSceneName(response, extracted_scene) ==
    IF extracted_scene # response.scene_name
      THEN [response EXCEPT !.scene_name = extracted_scene]
      ELSE response

\* _call_llm_for_script without the check of the extracted scene name
CallLLMForScriptUnchecked(answer, error_context) ==
    IF answer.raises
      THEN [raises |-> TRUE,
            exc |-> LLMGenerationError("Failed to", error_context, <<"LLMGenerationError">>),
            result |-> answer.result]
      ELSE [raises |-> FALSE, exc |-> NoException, result |-> answer.result]

\* _call_llm_for_script returning the gateway's result where it should raise
CallLLMForScriptSwallowing(answer, error_context) ==
    [raises |-> FALSE, exc |-> NoException, result |-> answer.result]

\* ManimCodeGenerator._call_llm_for_script for one answer of the gateway:
\* either the ResponseResult with the validated script, or the
\* LLMGenerationError every exception in the body is turned into
CallLLMForScript(answer, error_context) ==
    IF answer.raises
      THEN [raises |-> TRUE,
            exc |-> LLMGenerationError("Failed to", error_context, <<"LLMGenerationError">>),
            result |-> answer.result]
      ELSE LET response == answer.result.content
               extracted_scene == extract_scene_name(response.code)
           IN  IF extracted_scene = None
                 THEN [raises |-> TRUE,
                       exc |-> LLMGenerationError("Failed to", error_context,
                                                  <<"ScriptValidationError">>),
                       result |-> answer.result]
                 ELSE [raises |-> FALSE, exc |-> NoException,
                       result |-> ResponseResult(FixSceneName(response, extracted_scene),
                                                 answer.result.response_id)]

\* the except branch of _review_manim_script: the original script with the
\* previous response id, "" when there is none
ReviewFallback(script, previous_response_id) ==
    ResponseResult(script, Or(previous_response_id, EmptyId))

\* _review_manim_script without its except branch taking the original script
ReviewManimScriptNoFallback(script, previous_response_id, answer) ==
    answer.result

\* ManimCodeGenerator._review_manim_script for one answer of the gateway
ReviewManimScript(script, previous_response_id, answer) ==
    LET r == CallLLMForScript(answer, "review Manim script")
    IN  IF r.raises
          THEN ReviewFallback(script, previous_response_id)
          ELSE r.result

\* the assignment without "or current_response_id"
ChainOverwritten(response_id, current) ==
    response_id

\* current_response_id = review_result.response_id or current_response_id
ChainAfterReview(response_id, current) ==
    Or(response_id, current)

\* current_response_id = fix_result.response_id or current_response_id
ChainAfterFix(response_id, current) ==
    Or(response_id, current)

\* the comparison of line 125 taken one past the budget
IsLastAttemptLate(n, max_attempts) ==
    n = max_attempts + 1

\* the comparison of line 125 giving up one attempt early
IsLastAttemptEarly(n, max_attempts) ==
    n >= max_attempts - 1

\* if attempt == max_attempts
IsLastAttempt(n, max_attempts) ==
    n = max_attempts

\* the loop header: for attempt in range(1, max_attempts + 1)
InRange(n, max_attempts) ==
    /\ 1 <= n
    /\ n < max_attempts + 1

\* the failure raised without the script's name and the diagnostic
RenderBudgetExhaustedBare(n, max_attempts, script, diagnostic) ==
    AnimationRenderError("Animation rendering failed after attempts", n, max_attempts,
                         None, None, <<>>)

\* raise AnimationRenderError(f"... failed after {max_attempts} attempts",
\*       attempt=attempt, max_attempts=max_attempts,
\*       scene_name=script_response.scene_name, error_output=error_msg)
RenderBudgetExhausted(n, max_attempts, script, diagnostic) ==
    AnimationRenderError("Animation rendering failed after attempts", n, max_attempts,
                         script.scene_name, diagnostic, <<>>)

\* raise LLMGenerationError(f"Failed to fix script on attempt {attempt}: ...",
\*       prompt_type="error_correction") from fix_error
FixFailed(fix_error) ==
    LLMGenerationError("Failed to fix script on attempt", "error_correction",
                       From(fix_error))

\* raise AnimationRenderError("Unexpected error in retry loop")
UnexpectedLoopExit ==
    AnimationRenderError("Unexpected error in retry loop", DefaultAttempt,
                         DefaultMaxAttempts, None, None, <<>>)

\* --------------------------------------------------------------- archiver

\* Text is a sequence of characters.  The characters of a prompt: a
\* lower-case letter, an upper-case letter, a digit, a blank, a tab, a
\* hyphen, an underscore, a punctuation mark, and a letter without case
\* (U+4E2D), which \w matches on str patterns.
Chars ==
    {"a", "Q", "7", " ", "\t", "-", "_", "!", "U+4E2D"}

\* str.lower(), one character
LowerChar(c) ==
    IF c = "Q" THEN "q" ELSE c

\* str.lower()
Lower(s) ==
    [i \in DOMAIN s |-> LowerChar(s[i])]

\* \s
IsSpace(c) ==
    c \in {" ", "\t"}

\* \w on str: letters of any script, digits and the underscore
IsWord(c) ==
    c \in {"a", "q", "Q", "7", "_", "U+4E2D"}

\* the characters [^\w\s-] does not match
IsKept(c) ==
    IsWord(c) \/ IsSpace(c) \/ c = "-"

\* re.sub(r'[^\w\s-]', '', s)
RemoveSpecial(s) ==
    SelectSeq(s, IsKept)

RECURSIVE LStrip(_)
\* str.lstrip()
LStrip(s) ==
    IF s # <<>> /\ IsSpace(Head(s)) THEN LStrip(Tail(s)) ELSE s

RECURSIVE RStrip(_)
\* str.rstrip()
RStrip(s) ==
    IF s # <<>> /\ IsSpace(s[Len(s)]) THEN RStrip(SubSeq(s, 1, Len(s) - 1)) ELSE s

\* str.strip()
Strip(s) ==
    RStrip(LStrip(s))

RECURSIVE CollapseSpaces(_)
\* re.sub(r'\s+', '_', s): every maximal run of whitespace becomes one "_"
CollapseSpaces(s) ==
    IF s = <<>>
      THEN <<>>
      ELSE IF IsSpace(Head(s))
             THEN <<"_">> \o CollapseSpaces(LStrip(s))
             ELSE <<Head(s)>> \o CollapseSpaces(Tail(s))

RECURSIVE RStripUnderscore(_)
\* str.rstrip('_')
RStripUnderscore(s) ==
    IF s # <<>> /\ s[Len(s)] = "_"
      THEN RStripUnderscore(SubSeq(s, 1, Len(s) - 1))
      ELSE s

\* the prompt fragment left at its full length
LimitLengthOff(s) ==
    s

\* if len(clean_prompt) > MAX_FILENAME_LENGTH:
\*     clean_prompt = clean_prompt[:MAX_FILENAME_LENGTH].rstrip('_')
LimitLength(s) ==
    IF Len(s) > MAX_FILENAME_LENGTH
      THEN RStripUnderscore(SubSeq(s, 1, MAX_FILENAME_LENGTH))
      ELSE s

\* lines 297-302: the prompt fragment of the filename
CleanPrompt(prompt) ==
    LimitLength(CollapseSpaces(Strip(RemoveSpecial(Lower(prompt)))))

\* str(attempt) of an attempt of the loop
Decimal(n) ==
    <<<<"1">>, <<"2">>, <<"3">>, <<"4">>, <<"5">>, <<"6">>, <<"7">>, <<"8">>, <<"9">>>>[n]

\* attempt_suffix = f"_attempt{attempt}" if attempt > 1 else ""
AttemptSuffix(n) ==
    IF n > 1
      THEN <<"_", "a", "t", "t", "e", "m", "p", "t">> \o Decimal(n)
      ELSE <<>>

\* ManimCodeGenerator._generate_script_filename at the time whose
\* strftime(TIMESTAMP_FORMAT) is timestamp:
\* f"{timestamp}_{clean_prompt}_{scene_name}{attempt_suffix}.py"
GenerateScriptFilename(prompt, scene_name, n, timestamp) ==
    timestamp \o <<"_">> \o CleanPrompt(prompt) \o <<"_">> \o scene_name
      \o AttemptSuffix(n) \o <<".", "p", "y">>

\* the location _save_successful_script writes to: the scripts directory,
\* the entry-point name and the attempt suffix of the filename
ScriptPath(scene_name, n) ==
    <<"scripts", scene_name, IF n > 1 THEN "_attempt" ELSE "">>

\* what write_text raises when the file cannot be written
OSError ==
    Exception("OSError", "write_text", 0, 0, None, None, None, <<>>)

\* _save_successful_script letting the failure of write_text escape
SaveSuccessfulScriptRaising(script, n, write_ok) ==
    IF write_ok
      THEN [raises |-> FALSE, exc |-> NoException, path |-> ScriptPath(script.scene_name, n)]
      ELSE [raises |-> TRUE, exc |-> OSError, path |-> NoPath]

\* ManimCodeGenerator._save_successful_script: the path written, or None
\* when writing raises (the exception is caught and a warning printed)
SaveSuccessfulScript(script, n, write_ok) ==
    IF write_ok
      THEN [raises |-> FALSE, exc |-> NoException, path |-> ScriptPath(script.scene_name, n)]
      ELSE [raises |-> FALSE, exc |-> NoException, path |-> NoPath]

\* the test of line 117 taken as always true
SucceededAlways(r) ==
    TRUE

\* if success:
Succeeded(r) ==
    r.success

\* ------------------------------------------------------------------ state

VARIABLES
    pc,                          \* where generate stands
    enhance,                     \* request.should_enhance()
    stage,                       \* the SubjectMatterAgent stage about to run
    subject_matter_response_id,  \* second component of _create_prompt's result
    script_response,             \* the loop's current script
    current_response_id,         \* the loop's current continuation
    attempt,                     \* the loop variable
    error_msg,                   \* diagnostic of the last render call
    last_saved_script_path,      \* self.last_saved_script_path
    result,                      \* what generate returned
    raised,                      \* what generate raised
    log,                         \* history: the collaborator calls made, in order
    nextId,                      \* history: the next identifier of the gateway
    before_review,               \* history: script and continuation the generation step returned
    review_fell_back,            \* history: the review step took its except branch
    last_render,                 \* history: the last render call, its script and its result
    fix_previous_response_id,    \* history: previous_response_id of the last repair call
    last_valid_id,               \* history: the last non-empty identifier a step returned
    declared_scene_name,         \* history: the scene_name the LLM declared for the current script
    call,                        \* a call of one function on its own: arguments and result
    cli,                         \* the animate command: where it stands and its exit status
    tasks,                       \* overlapping invocations of generate on one generator
    disk,                        \* the files of scripts_dir and animations_dir
    now                          \* the clock, in seconds

vars ==
    <<pc, enhance, stage, subject_matter_response_id, script_response,
      current_response_id, attempt, error_msg, last_saved_script_path, result,
      raised, log, nextId, before_review, review_fell_back, last_render,
      fix_previous_response_id, last_valid_id, declared_scene_name, call, cli,
      tasks, disk, now>>

\* one entry of the history: the call, the attempt it belongs to and how
\* the collaborator answered ("ok", or what went wrong)
Event(op, n, outcome) ==
    [op |-> op, attempt |-> n, outcome |-> outcome]

\* how the gateway answered a script call: it raised ("llm_error"), it
\* returned a script without a scene class ("invalid"), or a usable script
AnswerOutcome(answer) ==
    IF answer.raises
      THEN "llm_error"
      ELSE IF extract_scene_name(answer.result.content.code) = None
             THEN "invalid"
             ELSE "ok"

\* how a boolean collaborator answered
BoolOutcome(ok) ==
    IF ok THEN "ok" ELSE "failed"

NoRender ==
    [attempt |-> 0, scene_name |-> None, code |-> SrcSyntaxError, success |-> FALSE,
     video_path |-> NoPath, error_msg |-> None, launched |-> FALSE]

\* the result built from the script the generation step returned
OutputOfFirstScript(script, path, saved) ==
    [video_path |-> path, alt_text |-> before_review.content.description,
     scene_name |-> before_review.content.scene_name,
     duration |-> before_review.content.estimated_duration, script_path |-> saved]

\* AnimationOutput(...).model_dump(), plus script_path when
\* self.last_saved_script_path is set
Output(script, path, saved) ==
    [video_path |-> path, alt_text |-> script.description,
     scene_name |-> script.scene_name, duration |-> script.estimated_duration,
     script_path |-> saved]

NoOutput ==
    [video_path |-> NoPath, alt_text |-> 0, scene_name |-> None, duration |-> 0,
     script_path |-> NoPath]

\* no function is called on its own
NoCall ==
    [fn |-> None, args |-> <<>>, done |-> FALSE, ret |-> None]

\* generate is not run by the animate command
NoCli ==
    [pc |-> None, skip_subject_matter |-> FALSE, exit_code |-> 0, fatal_seen |-> FALSE,
     loops |-> 0, renders |-> 0]

\* the variables of the overlapping invocations
shared ==
    <<tasks, disk, now>>

\* no overlapping invocation runs, both directories are empty
NoInvocations ==
    /\ tasks = <<>>
    /\ disk = [scripts |-> <<>>, animations |-> <<>>]
    /\ now = 0

Init ==
    /\ call = NoCall
    /\ cli = NoCli
    /\ NoInvocations
    /\ pc = "check_installation"
    /\ enhance \in BOOLEAN
    /\ stage = 1
    /\ subject_matter_response_id = NoneId
    /\ script_response = NoScript
    /\ current_response_id = NoneId
    /\ attempt = 0
    /\ error_msg = None
    /\ last_saved_script_path = NoPath
    /\ result = NoOutput
    /\ raised = NoException
    /\ log = <<>>
    /\ nextId = FirstId
    /\ before_review = ResponseResult(NoScript, NoneId)
    /\ review_fell_back = FALSE
    /\ last_render = NoRender
    /\ fix_previous_response_id = NoneId
    /\ last_valid_id = NoneId
    /\ declared_scene_name = None

\* generate raises e (after its except clauses)
Raise(e) ==
    /\ pc' = "failed"
    /\ raised' = GenerateExcept(e)

\* the last non-empty identifier returned, after a step returned id
Remember(id) ==
    last_valid_id' = IF Truthy(id) THEN id ELSE last_valid_id

\* ------------------------------------------------- SubjectMatterAgent

\* the dict of an expander that returns the brief as text with its
\* continuation, as _create_prompt reads it
ExpansionOutputKeysAsRead ==
    {"expanded_prompt_text", "_response_id"}

\* the keys of the dict SubjectMatterAgent.generate returns:
\* ExpandedPrompt(...).model_dump()
ExpansionOutputKeys ==
    {"learning_objective", "key_concepts", "visual_strategy", "animation_sequence",
     "explanatory_text", "quality_checklist"}

\* a stage of SubjectMatterAgent.generate failed: the stage wraps the
\* client's error, generate wraps the stage's error
StageFailed ==
    SubjectMatterAnalysisError("Subject matter analysis failed",
                               <<"SubjectMatterAnalysisError", "LLMGenerationError">>)

\* expansion_output["expanded_prompt_text"] on a dict without that key
KeyError ==
    Exception("KeyError", "expanded_prompt_text", 0, 0, None, None, None, <<>>)

\* expansion_output.get("_response_id")
ExpansionResponseId(keys, id) ==
    IF "_response_id" \in keys THEN id ELSE NoneId

\* ---------------------------------------------------------------- actions

\* a budget of no attempt at all: range(1, 1) is empty
NoAttempts ==
    MAX_RETRY_ATTEMPTS - MAX_RETRY_ATTEMPTS

\* max_attempts = RenderConfig.MAX_RETRY_ATTEMPTS
max_attempts ==
    MAX_RETRY_ATTEMPTS

\* the loop header counting one attempt too many
EnterAttemptSkipping(n) ==
    IF InRange(n + 1, max_attempts)
      THEN /\ pc' = "render"
           /\ attempt' = n + 1
           /\ raised' = raised
      ELSE /\ Raise(UnexpectedLoopExit)
           /\ attempt' = attempt

\* the loop header takes the value n: the body runs when n is in the range,
\* otherwise control reaches the statement after the loop
EnterAttempt(n) ==
    IF InRange(n, max_attempts)
      THEN /\ pc' = "render"
           /\ attempt' = n
           /\ raised' = raised
      ELSE /\ Raise(UnexpectedLoopExit)
           /\ attempt' = attempt

\* generate, lines 50-57: the tooling check
CheckInstallation ==
    /\ pc = "check_installation"
    /\ \E is_installed \in BOOLEAN :
         /\ log' = Append(log, Event("check_installation", 0, BoolOutcome(is_installed)))
         /\ IF is_installed
              THEN /\ pc' = "create_prompt"
                   /\ raised' = raised
              ELSE Raise(ManimInstallationError("Manim installation check failed"))
    /\ UNCHANGED <<shared, call, cli, enhance, stage, subject_matter_response_id, script_response,
                   current_response_id, attempt, error_msg, last_saved_script_path,
                   result, nextId, before_review, review_fell_back, last_render,
                   fix_previous_response_id, last_valid_id, declared_scene_name>>

\* _create_prompt when enhancement is not requested
CreatePromptDirect ==
    /\ pc = "create_prompt"
    /\ ~enhance
    /\ subject_matter_response_id' = NoneId
    /\ pc' = "generate"
    /\ UNCHANGED <<shared, call, cli, enhance, stage, script_response, current_response_id, attempt,
                   error_msg, last_saved_script_path, result, raised, log, nextId,
                   before_review, review_fell_back, last_render,
                   fix_previous_response_id, last_valid_id, declared_scene_name>>

\* _create_prompt when enhancement is requested: one LLM stage of
\* SubjectMatterAgent.generate; after the last stage the dict is returned
\* and _create_prompt reads "_response_id" and "expanded_prompt_text" from it
SubjectMatterStage ==
    /\ pc = "create_prompt"
    /\ enhance
    /\ \E ok \in BOOLEAN :
         /\ log' = Append(log, Event("brief", stage, BoolOutcome(ok)))
         /\ IF ~ok
              THEN /\ Raise(StageFailed)
                   /\ UNCHANGED <<stage, subject_matter_response_id, last_valid_id>>
              ELSE IF stage < NumStages
                     THEN /\ stage' = stage + 1
                          /\ UNCHANGED <<pc, raised, subject_matter_response_id,
                                         last_valid_id>>
                     ELSE /\ stage' = stage
                          /\ subject_matter_response_id' =
                               ExpansionResponseId(ExpansionOutputKeys, nextId)
                          /\ Remember(ExpansionResponseId(ExpansionOutputKeys, nextId))
                          /\ IF "expanded_prompt_text" \in ExpansionOutputKeys
                               THEN /\ pc' = "generate"
                                    /\ raised' = raised
                               ELSE Raise(KeyError)
    /\ nextId' = nextId + 1
    /\ UNCHANGED <<shared, call, cli, enhance, script_response, current_response_id, attempt, error_msg,
                   last_saved_script_path, result, before_review, review_fell_back,
                   last_render, fix_previous_response_id, declared_scene_name>>

\* lines 100-102: the generation call
GenerateScript ==
    /\ pc = "generate"
    /\ \E answer \in GatewayAnswers(nextId) :
         LET r == CallLLMForScript(answer, "generate Manim script")
         IN  /\ log' = Append(log, Event("generate", 0, AnswerOutcome(answer)))
             /\ IF r.raises
                  THEN /\ Raise(r.exc)
                       /\ UNCHANGED <<script_response, current_response_id,
                                      before_review, last_valid_id,
                                      declared_scene_name>>
                  ELSE /\ script_response' = r.result.content
                       /\ current_response_id' = r.result.response_id
                       /\ before_review' = r.result
                       /\ declared_scene_name' = answer.result.content.scene_name
                       /\ Remember(r.result.response_id)
                       /\ pc' = "review"
                       /\ raised' = raised
    /\ nextId' = nextId + 1
    /\ UNCHANGED <<shared, call, cli, enhance, stage, subject_matter_response_id, attempt, error_msg,
                   last_saved_script_path, result, review_fell_back, last_render,
                   fix_previous_response_id>>

\* lines 105-112: the review call, then the loop is entered
ReviewScript ==
    /\ pc = "review"
    /\ \E answer \in GatewayAnswers(nextId) :
         LET review_result == ReviewManimScript(script_response, current_response_id, answer)
             fell_back == CallLLMForScript(answer, "review Manim script").raises
         IN  /\ log' = Append(log, Event("review", 0, AnswerOutcome(answer)))
             /\ review_fell_back' = fell_back
             /\ script_response' = review_result.content
             /\ current_response_id' =
                  ChainAfterReview(review_result.response_id, current_response_id)
             /\ Remember(review_result.response_id)
             /\ declared_scene_name' = IF fell_back
                                         THEN declared_scene_name
                                         ELSE answer.result.content.scene_name
    /\ EnterAttempt(1)
    /\ nextId' = nextId + 1
    /\ UNCHANGED <<shared, call, cli, enhance, stage, subject_matter_response_id, error_msg,
                   last_saved_script_path, result, before_review, last_render,
                   fix_previous_response_id>>

\* lines 113-132 and 65-79: one render call; on success the script is
\* archived (lines 118-121) and generate returns the output, on the last
\* attempt the failure is raised
RenderAttempt ==
    /\ pc = "render"
    /\ \E proc \in ProcessOutcomes, write_ok \in BOOLEAN :
         LET r == render_animation(script_response.code, script_response.scene_name, proc)
             saved == SaveSuccessfulScript(script_response, attempt, write_ok)
         IN  /\ error_msg' = r.error_msg
             /\ last_render' = [attempt |-> attempt,
                                scene_name |-> script_response.scene_name,
                                code |-> script_response.code,
                                success |-> r.success, video_path |-> r.video_path,
                                error_msg |-> r.error_msg, launched |-> r.launched]
             /\ IF Succeeded(r)
                  THEN /\ log' = log \o <<Event("render", attempt, BoolOutcome(r.success)),
                                          Event("archive", attempt, BoolOutcome(write_ok))>>
                       /\ IF saved.raises
                            THEN /\ Raise(saved.exc)
                                 /\ UNCHANGED <<last_saved_script_path, result>>
                            ELSE /\ last_saved_script_path' = saved.path
                                 /\ result' = Output(script_response, r.video_path,
                                                     saved.path)
                                 /\ pc' = "success"
                                 /\ raised' = raised
                  ELSE /\ log' = Append(log, Event("render", attempt, "failed"))
                       /\ UNCHANGED <<last_saved_script_path, result>>
                       /\ IF IsLastAttempt(attempt, max_attempts)
                            THEN Raise(RenderBudgetExhausted(attempt, max_attempts,
                                                             script_response, r.error_msg))
                            ELSE /\ pc' = "fix"
                                 /\ raised' = raised
    /\ UNCHANGED <<shared, call, cli, enhance, stage, subject_matter_response_id, script_response,
                   current_response_id, attempt, nextId, before_review,
                   review_fell_back, fix_previous_response_id, last_valid_id,
                   declared_scene_name>>

\* lines 141-154: the repair call, then the next iteration of the loop
FixScript ==
    /\ pc = "fix"
    /\ \E answer \in GatewayAnswers(nextId) :
         LET r == CallLLMForScript(answer, "fix Manim script")
         IN  /\ log' = Append(log, Event("repair", attempt, AnswerOutcome(answer)))
             /\ IF r.raises
                  THEN /\ Raise(FixFailed(r.exc))
                       /\ UNCHANGED <<script_response, current_response_id, attempt,
                                      last_valid_id, declared_scene_name>>
                  ELSE /\ script_response' = r.result.content
                       /\ current_response_id' =
                            ChainAfterFix(r.result.response_id, current_response_id)
                       /\ Remember(r.result.response_id)
                       /\ declared_scene_name' = answer.result.content.scene_name
                       /\ EnterAttempt(attempt + 1)
    /\ fix_previous_response_id' = current_response_id
    /\ nextId' = nextId + 1
    /\ UNCHANGED <<shared, call, cli, enhance, stage, subject_matter_response_id, error_msg,
                   last_saved_script_path, result, before_review, review_fell_back,
                   last_render>>

Next ==
    \/ CheckInstallation
    \/ CreatePromptDirect
    \/ SubjectMatterStage
    \/ GenerateScript
    \/ ReviewScript
    \/ RenderAttempt
    \/ FixScript

Spec ==
    Init /\ [][Next]_vars

\* generate under an event loop that keeps running it: every collaborator
\* call returns or fails, so a step that can be taken is eventually taken
SpecLive ==
    Spec /\ WF_vars(Next)

\* ---------------------------------------- the script validator on its own

\* the generator as constructed, generate not running
PipelineIdle ==
    /\ pc = "idle"
    /\ enhance = FALSE
    /\ stage = 1
    /\ subject_matter_response_id = NoneId
    /\ script_response = NoScript
    /\ current_response_id = NoneId
    /\ attempt = 0
    /\ error_msg = None
    /\ last_saved_script_path = NoPath
    /\ result = NoOutput
    /\ raised = NoException
    /\ log = <<>>
    /\ nextId = FirstId
    /\ before_review = ResponseResult(NoScript, NoneId)
    /\ review_fell_back = FALSE
    /\ last_render = NoRender
    /\ fix_previous_response_id = NoneId
    /\ last_valid_id = NoneId
    /\ declared_scene_name = None

\* every state variable of the pipeline and of the command, at rest
Idle ==
    /\ cli = NoCli
    /\ PipelineIdle
    /\ NoInvocations

\* the variables of the pipeline
pipeline ==
    <<pc, enhance, stage, subject_matter_response_id, script_response,
      current_response_id, attempt, error_msg, last_saved_script_path, result,
      raised, log, nextId, before_review, review_fell_back, last_render,
      fix_previous_response_id, last_valid_id, declared_scene_name>>

\* the variables a function called on its own leaves alone
others ==
    <<pipeline, cli, shared>>

\* the call fn(args), not yet made
Call(fn, args) ==
    [fn |-> fn, args |-> args, done |-> FALSE, ret |-> None]

\* the bases a class definition is given
BaseSamples ==
    {NameBase("Scene"), NameBase("Helper"), AttributeBase("ThreeDScene"),
     AttributeBase("VGroup"), OtherBase("MovingCameraScene")}

\* all sequences over S of length at most n
SeqsUpTo(S, n) ==
    UNION {[1..k -> S] : k \in 0..n}

\* the base lists a class definition is given: none, one base, or a mixin
\* followed by one base
BaseLists ==
    {<<>>} \cup {<<base>> : base \in BaseSamples}
           \cup {<<NameBase("Helper"), base>> : base \in BaseSamples}

\* the class definitions of a source text, in ast.walk order
ClassDefs ==
    {ClassDef(name, bases) : name \in DeclaredNames, bases \in BaseLists}

\* the source texts given to the validator: one that does not parse, and
\* every text with up to MaxClasses of the class definitions
ValidatorInputs ==
    {SrcSyntaxError}
      \cup {SourceText(TRUE, classes, {ManimImport}, {}) : classes \in SeqsUpTo(ClassDefs, MaxClasses)}

InitValidator ==
    /\ Idle
    /\ call \in {Call("extract_scene_name", <<code>>) : code \in ValidatorInputs}

\* ManimRunner.extract_scene_name(code) returns
ExtractSceneName ==
    /\ call.fn = "extract_scene_name"
    /\ ~call.done
    /\ call' = [call EXCEPT !.done = TRUE, !.ret = extract_scene_name(call.args[1])]
    /\ UNCHANGED others

NextValidator ==
    ExtractSceneName

SpecValidator ==
    InitValidator /\ [][NextValidator]_vars

\* -------------------------------------------------------------- SpecRunner
\* ManimRunner.render_animation on its own: one call for a script and a
\* behaviour of the subprocess drawn from samples.

\* import statements a script may hold
ImportSamples ==
    {ManimImport, Import(<<"os">>), Import(<<"os", "path">>),
     ImportFrom(<<"shutil">>), ImportFrom(<<"subprocess", "run">>)}

\* call expressions a script may hold
CallSamples ==
    {NameCall("print"), NameCall("open"), NameCall("eval"), AttributeCall("open")}

RunnerInputs ==
    {SrcSyntaxError}
      \cup {SourceText(TRUE, << ClassDef("A", <<NameBase("Scene")>>) >>, imports, calls) :
               imports \in SUBSET ImportSamples, calls \in SUBSET CallSamples}

InitRunner ==
    /\ Idle
    /\ call \in {Call("render_animation", <<code, "A", proc>>) :
                    code \in RunnerInputs, proc \in ProcessOutcomes}

\* ManimRunner.render_animation(code, scene_name, output_dir) returns
RunRenderAnimation ==
    /\ call.fn = "render_animation"
    /\ ~call.done
    /\ call' = [call EXCEPT !.done = TRUE,
                            !.ret = render_animation(call.args[1], call.args[2], call.args[3])]
    /\ UNCHANGED others

NextRunner ==
    RunRenderAnimation

SpecRunner ==
    InitRunner /\ [][NextRunner]_vars

\* -------------------------------------------------------- SpecSubjectMatter
\* SubjectMatterAgent.generate and process_with_timeout on their own: one
\* call, for every way the three LLM stages can succeed or fail and for
\* the time each takes.

\* seconds a stage's LLM call may take
StageSeconds ==
    {1, 40}

\* timeout_seconds; no sum of stage times equals a sample, so whether the
\* timer or the completion comes first is always determined
TimeoutSamples ==
    {30, 90}

\* what the stages do: for each, whether its LLM call succeeds and how long
\* it takes
StagePlans ==
    [1..NumStages -> [ok : BOOLEAN, seconds : StageSeconds]]

\* the stage at which generate ends: the first whose LLM call fails, else
\* the last
LastStageRun(plan) ==
    LET failing == { i \in 1..NumStages : ~plan[i].ok }
    IN  IF failing = {}
          THEN NumStages
          ELSE CHOOSE i \in failing : \A j \in failing : i <= j

\* the seconds generate has run when stage n ends
RECURSIVE Elapsed(_, _)
Elapsed(plan, n) ==
    IF n = 0 THEN 0 ELSE Elapsed(plan, n - 1) + plan[n].seconds

\* what a call returned or raised
Returned(value) ==
    [raises |-> FALSE, exc |-> NoException, value |-> value]

Raised(e) ==
    [raises |-> TRUE, exc |-> e, value |-> None]

\* SubjectMatterAgent.generate: the dict of the expanded prompt, or the
\* failure of a stage wrapped by the except clause of lines 86-90
SubjectMatterGenerate(plan) ==
    IF plan[LastStageRun(plan)].ok
      THEN Returned(ExpansionOutputKeys)
      ELSE Raised(StageFailed)

\* asyncio.TimeoutError caught at line 218
ProcessingTimedOut ==
    SubjectMatterAnalysisError("Subject matter processing timed out", <<>>)

\* any other exception caught at line 223
ProcessingFailed(e) ==
    SubjectMatterAnalysisError("Subject matter processing failed", From(e))

\* asyncio.wait_for cancels generate when it has not ended within timeout
TimesOut(plan, timeout_seconds) ==
    Elapsed(plan, LastStageRun(plan)) > timeout_seconds

\* SubjectMatterAgent.process_with_timeout
ProcessWithTimeout(plan, timeout_seconds) ==
    IF TimesOut(plan, timeout_seconds)
      THEN Raised(ProcessingTimedOut)
      ELSE LET r == SubjectMatterGenerate(plan)
           IN  IF r.raises
                 THEN Raised(ProcessingFailed(r.exc))
                 ELSE Returned("ExpandedPrompt")

InitSubjectMatter ==
    /\ Idle
    /\ call \in {Call("generate", <<plan>>) : plan \in StagePlans}
                 \cup {Call("process_with_timeout", <<plan, t>>) :
                          plan \in StagePlans, t \in TimeoutSamples}

\* SubjectMatterAgent.generate(input_data) returns or raises
RunSubjectMatterGenerate ==
    /\ call.fn = "generate"
    /\ ~call.done
    /\ call' = [call EXCEPT !.done = TRUE, !.ret = SubjectMatterGenerate(call.args[1])]
    /\ UNCHANGED others

\* SubjectMatterAgent.process_with_timeout(user_prompt, timeout_seconds)
\* returns or raises
RunProcessWithTimeout ==
    /\ call.fn = "process_with_timeout"
    /\ ~call.done
    /\ call' = [call EXCEPT !.done = TRUE,
                            !.ret = ProcessWithTimeout(call.args[1], call.args[2])]
    /\ UNCHANGED others

NextSubjectMatter ==
    \/ RunSubjectMatterGenerate
    \/ RunProcessWithTimeout

SpecSubjectMatter ==
    InitSubjectMatter /\ [][NextSubjectMatter]_vars

\* ------------------------------------------ the archiver's filename builder

RECURSIVE Repeat(_, _)
\* the text s repeated k times
Repeat(s, k) ==
    IF k = 0 THEN <<>> ELSE s \o Repeat(s, k - 1)

\* the prompts: every word of up to MaxWordLen characters, repeated up to
\* MaxRepeats times (the longest exceed MAX_FILENAME_LENGTH)
PromptSamples ==
    {Repeat(word, k) : word \in SeqsUpTo(Chars, MaxWordLen) \ {<<>>}, k \in 1..MaxRepeats}
      \cup {<<>>}

\* entry-point names: Python identifiers
SceneNameSamples ==
    {<<"T", "e", "s", "t", "C", "i", "r", "c", "l", "e">>, <<"s", "c", "e", "n", "e", "_", "1">>}

\* datetime.now().strftime("%Y%m%d_%H%M%S") at some moment
TimestampSamples ==
    {<<"2", "0", "2", "5", "0", "1", "3", "1", "_", "2", "3", "5", "9", "5", "9">>}

\* the attempts the loop hands to the archiver: the first and a later one
AttemptSamples ==
    {1, MAX_RETRY_ATTEMPTS}

InitArchiver ==
    /\ Idle
    /\ call \in {Call("_generate_script_filename", <<prompt, scene_name, n, timestamp>>) :
                    prompt \in PromptSamples, scene_name \in SceneNameSamples,
                    n \in AttemptSamples, timestamp \in TimestampSamples}

\* ManimCodeGenerator._generate_script_filename(prompt, scene_name, attempt) returns
GenerateFilename ==
    /\ call.fn = "_generate_script_filename"
    /\ ~call.done
    /\ call' = [call EXCEPT !.done = TRUE,
                            !.ret = GenerateScriptFilename(call.args[1], call.args[2],
                                                           call.args[3], call.args[4])]
    /\ UNCHANGED others

NextArchiver ==
    GenerateFilename

SpecArchiver ==
    InitArchiver /\ [][NextArchiver]_vars

\* ------------------------------------------------------ the animate command

\* One behaviour is one run of `teachme animate`.  The client the command
\* constructs is handed to the generator and answers its calls as the
\* gateway does.  The history variables hold the current invocation of
\* generate.

\* animation_generator.generate(input_data) is entered with enhance = e
StartGenerate(e) ==
    /\ pc' = "check_installation"
    /\ enhance' = e
    /\ stage' = 1
    /\ subject_matter_response_id' = NoneId
    /\ script_response' = NoScript
    /\ current_response_id' = NoneId
    /\ attempt' = 0
    /\ error_msg' = None
    /\ result' = NoOutput
    /\ raised' = NoException
    /\ log' = <<>>
    /\ nextId' = FirstId
    /\ before_review' = ResponseResult(NoScript, NoneId)
    /\ review_fell_back' = FALSE
    /\ last_render' = NoRender
    /\ fix_previous_response_id' = NoneId
    /\ last_valid_id' = NoneId
    /\ declared_scene_name' = None
    /\ UNCHANGED last_saved_script_path

\* raise typer.Exit(1)
Exit(status) ==
    cli' = [cli EXCEPT !.pc = "done", !.exit_code = status,
                       !.fatal_seen = @ \/ pc = "failed"]

InitCli ==
    /\ call = NoCall
    /\ PipelineIdle
    /\ NoInvocations
    /\ \E skip_subject_matter \in BOOLEAN :
         cli = [pc |-> "init", skip_subject_matter |-> skip_subject_matter,
                exit_code |-> 0, fatal_seen |-> FALSE, loops |-> 0, renders |-> 0]

\* lines 36-66: the client and the generator are constructed (the client
\* raises ValueError without an API key); in legacy mode generate is called
CliInitialize ==
    /\ cli.pc = "init"
    /\ \E constructed \in BOOLEAN :
         IF ~constructed
           THEN /\ Exit(1)
                /\ UNCHANGED pipeline
           ELSE IF cli.skip_subject_matter
                  THEN /\ cli' = [cli EXCEPT !.pc = "generate"]
                       /\ StartGenerate(FALSE)
                  ELSE /\ cli' = [cli EXCEPT !.pc = "process_with_timeout"]
                       /\ UNCHANGED pipeline
    /\ UNCHANGED <<call, shared>>

\* lines 68-84 and 88-96: subject_matter_agent.process_with_timeout returns
\* and generate is called with enhance True, or it raises and generate is
\* called with enhance False
CliProcessWithTimeout ==
    /\ cli.pc = "process_with_timeout"
    /\ \E analysed \in BOOLEAN :
         IF analysed
           THEN /\ cli' = [cli EXCEPT !.pc = "generate_enhanced"]
                /\ StartGenerate(TRUE)
           ELSE /\ cli' = [cli EXCEPT !.pc = "fallback"]
                /\ StartGenerate(FALSE)
    /\ UNCHANGED <<call, shared>>

\* lines 88-96: the except clause around the enhanced call of generate
\* catches what generate raised and calls generate with enhance False
\* (history: the generation and render calls of the run that failed)
CliFallback ==
    /\ cli.pc = "generate_enhanced"
    /\ pc = "failed"
    /\ cli' = [cli EXCEPT !.pc = "fallback", !.fatal_seen = TRUE,
                          !.loops = @ + (IF \E i \in DOMAIN log : log[i].op = "generate"
                                           THEN 1 ELSE 0),
                          !.renders = @ + Cardinality({ i \in DOMAIN log :
                                                          log[i].op = "render" })]
    /\ StartGenerate(FALSE)
    /\ UNCHANGED <<call, shared>>

\* lines 102-119: generate returned, the result is reported and the
\* command ends normally
CliReportSuccess ==
    /\ cli.pc \in {"generate", "generate_enhanced", "fallback"}
    /\ pc = "success"
    /\ Exit(0)
    /\ UNCHANGED <<call, pipeline, shared>>

\* lines 98-100 and 124-132: what generate raised in legacy mode or in the
\* fallback reaches the outer except clause
CliExitFailure ==
    /\ cli.pc \in {"generate", "fallback"}
    /\ pc = "failed"
    /\ Exit(1)
    /\ UNCHANGED <<call, pipeline, shared>>

NextCli ==
    \/ CliInitialize
    \/ CliProcessWithTimeout
    \/ CheckInstallation
    \/ CreatePromptDirect
    \/ SubjectMatterStage
    \/ GenerateScript
    \/ ReviewScript
    \/ RenderAttempt
    \/ FixScript
    \/ CliFallback
    \/ CliReportSuccess
    \/ CliExitFailure

SpecCli ==
    InitCli /\ [][NextCli]_vars

\* ----------------------------------------------------------- SpecConcurrent
\* Two invocations of generate on the same generator object, run by one
\* event loop: an invocation runs until it awaits an LLM call, and another
\* may run while it waits. Each invocation is followed through the steps
\* that touch what the invocations share: self.last_saved_script_path,
\* scripts_dir and animations_dir.

\* the clock's last second
MaxClock ==
    1

\* the budget printed in the header, "Attempt: {attempt}/3"
HEADER_BUDGET ==
    3

Invocations ==
    {"first", "second"}

\* request.user_prompt of an invocation
TaskPrompts ==
    {<<"a">>, <<"Q">>}

\* the scripts that reach the render call with the entry point they declare
ValidScripts ==
    { s \in LLMScripts : /\ validate_code(s.code).is_valid
                         /\ extract_scene_name(s.code) = s.scene_name }

\* an invocation not yet started
NoTask(prompt) ==
    [pc |-> "idle", prompt |-> prompt, script |-> NoScript, attempt |-> 0,
     video_path |-> NoPath, wrote |-> NoPath, result |-> NoOutput,
     overlapped |-> FALSE]

\* datetime.now().strftime(TIMESTAMP_FORMAT) in the second t
Timestamp(t) ==
    <<"2", "0", "2", "5", "0", "1", "3", "1", "_", "2", "3", "5", "9", "5">> \o Decimal(t + 1)

\* script_path = self.scripts_dir / filename
ScriptFile(prompt, scene_name, n, t) ==
    <<"scripts">> \o GenerateScriptFilename(prompt, <<scene_name>>, n, Timestamp(t))

\* the header comment of a saved script
Header(script, prompt, n, t) ==
    [scene_name |-> script.scene_name, generated |-> t, prompt |-> prompt,
     description |-> script.description, duration |-> script.estimated_duration,
     attempt |-> n, budget |-> HEADER_BUDGET]

\* full_content = header + script_response.code
FullContent(script, prompt, n, t) ==
    [header |-> Header(script, prompt, n, t), code |-> script.code]

\* write_text and rename: the file at path holds content afterwards,
\* whether or not it existed
WriteFile(dir, path, content) ==
    [f \in DOMAIN dir \cup {path} |-> IF f = path THEN content ELSE dir[f]]

\* an event loop in which an invocation may be suspended anywhere
SuspensionPointsEverywhere ==
    {"idle", "generate", "review", "render", "fix", "return", "success", "failed"}

\* where an invocation does not hold the event loop: before it starts,
\* while it awaits an LLM call, and after it ended; render_animation blocks
\* in subprocess.run and _save_successful_script awaits nothing
SuspensionPoints ==
    {"idle", "generate", "review", "fix", "success", "failed"}

\* history: another invocation is under way while t runs
Overlaps(t) ==
    \E u \in Invocations \ {t} : tasks[u].pc \notin {"idle", "success", "failed"}

\* the event loop may run invocation t: no other invocation is running
CanRun(t) ==
    \A u \in Invocations \ {t} : tasks[u].pc \in SuspensionPoints

InitConcurrent ==
    /\ call = NoCall
    /\ cli = NoCli
    /\ PipelineIdle
    /\ tasks \in [Invocations -> {NoTask(prompt) : prompt \in TaskPrompts}]
    /\ disk = [scripts |-> <<>>, animations |-> <<>>]
    /\ now = 0

\* what the steps of the invocations leave alone
TaskFrame ==
    UNCHANGED <<call, cli, pc, enhance, stage, subject_matter_response_id,
                script_response, current_response_id, attempt, error_msg, result,
                raised, log, nextId, before_review, review_fell_back, last_render,
                fix_previous_response_id, last_valid_id, declared_scene_name, now>>

\* generate lines 48-61 and 97-100: the tool check, then the generation
\* call is awaited
TaskStart(t) ==
    /\ tasks[t].pc = "idle"
    /\ CanRun(t)
    /\ \E is_installed \in BOOLEAN :
         tasks' = [tasks EXCEPT ![t].pc = IF is_installed THEN "generate" ELSE "failed"]
    /\ UNCHANGED <<disk, last_saved_script_path>>
    /\ TaskFrame

\* lines 100-105: the generation call returns a script or raises; the
\* review call is awaited
TaskGenerated(t) ==
    /\ tasks[t].pc = "generate"
    /\ CanRun(t)
    /\ \/ tasks' = [tasks EXCEPT ![t].pc = "failed"]
       \/ \E s \in ValidScripts :
            tasks' = [tasks EXCEPT ![t].pc = "review", ![t].script = s]
    /\ UNCHANGED <<disk, last_saved_script_path>>
    /\ TaskFrame

\* lines 105-112: the review call returns a script, or the script of the
\* generation call is kept; the loop is entered
TaskReviewed(t) ==
    /\ tasks[t].pc = "review"
    /\ CanRun(t)
    /\ \E s \in ValidScripts \cup {tasks[t].script} :
         tasks' = [tasks EXCEPT ![t].pc = "render", ![t].script = s, ![t].attempt = 1]
    /\ UNCHANGED <<disk, last_saved_script_path>>
    /\ TaskFrame

\* lines 113-132: the render call; on success the video is moved to
\* final_path, the script is saved and self.last_saved_script_path is set
TaskRender(t) ==
    /\ tasks[t].pc = "render"
    /\ CanRun(t)
    /\ LET me == tasks[t]
           video == FinalPath(me.script.scene_name)
           file == ScriptFile(me.prompt, me.script.scene_name, me.attempt, now)
       IN  \E success \in BOOLEAN, write_ok \in BOOLEAN :
             IF Succeeded([success |-> success])
               THEN LET path == IF write_ok THEN file ELSE NoPath
                    IN  /\ disk' = [animations |->
                                      WriteFile(disk.animations, video,
                                                [render |-> <<t, me.attempt>>,
                                                 code |-> me.script.code]),
                                    scripts |->
                                      IF write_ok
                                        THEN WriteFile(disk.scripts, file,
                                                       FullContent(me.script, me.prompt,
                                                                   me.attempt, now))
                                        ELSE disk.scripts]
                        /\ last_saved_script_path' = path
                        /\ tasks' = [tasks EXCEPT ![t].pc = "return",
                                                  ![t].video_path = video,
                                                  ![t].wrote = path,
                                                  ![t].overlapped = Overlaps(t)]
               ELSE /\ tasks' = [tasks EXCEPT ![t].pc =
                                   IF IsLastAttempt(me.attempt, max_attempts)
                                     THEN "failed" ELSE "fix"]
                    /\ UNCHANGED <<disk, last_saved_script_path>>
    /\ TaskFrame

\* lines 141-154: the repair call returns a script or raises
TaskFixed(t) ==
    /\ tasks[t].pc = "fix"
    /\ CanRun(t)
    /\ \/ tasks' = [tasks EXCEPT ![t].pc = "failed"]
       \/ \E s \in ValidScripts :
            tasks' = [tasks EXCEPT ![t].pc = "render", ![t].script = s,
                                   ![t].attempt = @ + 1]
    /\ UNCHANGED <<disk, last_saved_script_path>>
    /\ TaskFrame

\* generate lines 65-79: the result is built, its script_path read from
\* self.last_saved_script_path
TaskReturn(t) ==
    /\ tasks[t].pc = "return"
    /\ CanRun(t)
    /\ tasks' = [tasks EXCEPT ![t].pc = "success",
                              ![t].result = Output(tasks[t].script, tasks[t].video_path,
                                                   last_saved_script_path)]
    /\ UNCHANGED <<disk, last_saved_script_path>>
    /\ TaskFrame

\* a second passes
Tick ==
    /\ now < MaxClock
    /\ now' = now + 1
    /\ UNCHANGED <<pipeline, call, cli, tasks, disk>>

NextConcurrent ==
    \/ \E t \in Invocations : TaskStart(t)
    \/ \E t \in Invocations : TaskGenerated(t)
    \/ \E t \in Invocations : TaskReviewed(t)
    \/ \E t \in Invocations : TaskRender(t)
    \/ \E t \in Invocations : TaskFixed(t)
    \/ \E t \in Invocations : TaskReturn(t)
    \/ Tick

SpecConcurrent ==
    InitConcurrent /\ [][NextConcurrent]_vars

\* ----------------------------------------------------------------- claims

\* the positions of the history holding a call of the given kind
Calls(op) ==
    { i \in DOMAIN log : log[i].op = op }

\* the number of calls of the given kind made so far
Count(op) ==
    Cardinality(Calls(op))

\* the last call made so far was of the given kind with the given outcome
LastCall(op, outcome) ==
    /\ log # <<>>
    /\ log[Len(log)].op = op
    /\ log[Len(log)].outcome = outcome

\* the loop ended because the render call of the last attempt failed
BudgetExhausted ==
    /\ pc = "failed"
    /\ LastCall("render", "failed")

\* C1: in every execution the loop makes at most max_attempts render calls
\* and at most max_attempts - 1 repair calls, and when it ends because the
\* render failed on every attempt the raised failure carries
\* attempt = max_attempts.
C1_RetryBudget ==
    /\ Count("render") <= max_attempts
    /\ Count("repair") <= max_attempts - 1
    /\ BudgetExhausted =>
         /\ raised.kind = "AnimationRenderError"
         /\ raised.attempt = max_attempts

\* the budget was used up: max_attempts failed renders, one repair between each
C1_Witness ==
    /\ BudgetExhausted
    /\ Count("render") = max_attempts
    /\ Count("repair") = max_attempts - 1
    /\ raised.attempt = MAX_RETRY_ATTEMPTS

\* C2: a failed render of attempt k < max_attempts is followed by exactly
\* one repair call and then (when the repair succeeds) by the render of
\* attempt k+1, every render of an attempt k+1 is directly preceded by that
\* one repair call, and a failed render of attempt max_attempts is followed
\* by no call at all.
C2_OneRepairPerFailure ==
    \A i \in Calls("render") :
      /\ log[i].outcome = "failed" /\ log[i].attempt < max_attempts =>
           /\ i = Len(log) => pc = "fix"
           /\ i < Len(log) =>
                /\ log[i + 1].op = "repair"
                /\ log[i + 1].attempt = log[i].attempt
                /\ i + 1 = Len(log) => pc \in {"render", "failed"}
                /\ i + 1 < Len(log) =>
                     /\ log[i + 2].op = "render"
                     /\ log[i + 2].attempt = log[i].attempt + 1
      /\ log[i].outcome = "failed" /\ log[i].attempt >= max_attempts =>
           /\ i = Len(log)
           /\ pc = "failed"
      /\ log[i].attempt > 1 =>
           /\ i > 2
           /\ log[i - 1] = Event("repair", log[i].attempt - 1, "ok")
           /\ log[i - 2] = Event("render", log[i].attempt - 1, "failed")

\* a failed render below the budget, its repair, the next render, and a
\* failed render of the last attempt with nothing after it
C2_Witness ==
    /\ pc = "failed"
    /\ LastCall("render", "failed")
    /\ log[Len(log)].attempt = max_attempts
    /\ \E i \in Calls("render") :
         /\ i + 2 <= Len(log)
         /\ log[i] = Event("render", 2, "failed")
         /\ log[i + 1] = Event("repair", 2, "ok")
         /\ log[i + 2] = Event("render", 3, "failed")

\* C3: whenever the loop returns success, with k the attempt whose render
\* succeeded: exactly one generation call was made, the render calls are
\* those of attempts 1..k of which only the k-th succeeded, exactly k - 1
\* repair calls were made, and the archiver was handed attempt = k.
C3_SuccessCounts ==
    pc = "success" =>
      LET k == last_render.attempt
      IN  /\ k \in 1..max_attempts
          /\ attempt = k
          /\ Count("generate") = 1
          /\ Count("render") = k
          /\ Count("repair") = k - 1
          /\ {log[i].attempt : i \in Calls("render")} = 1..k
          /\ \A i \in Calls("render") :
               log[i].outcome = (IF log[i].attempt = k THEN "ok" ELSE "failed")
          /\ \A i \in Calls("generate") \cup Calls("repair") : log[i].outcome = "ok"
          /\ Count("archive") = 1
          /\ \A i \in Calls("archive") : log[i].attempt = k

\* renders 1 and 2 failed, render 3 succeeded
C3_Witness ==
    /\ pc = "success"
    /\ last_render.attempt = 3
    /\ Count("render") = 3
    /\ Count("repair") = 2
    /\ Count("generate") = 1

\* C4: when the render fails on every attempt up to the budget, the raised
\* failure carries the diagnostic the last render call returned and the
\* entry-point name of the script rendered in that last call.
C4_TerminalFailureContext ==
    BudgetExhausted =>
      /\ last_render.attempt = max_attempts
      /\ ~last_render.success
      /\ raised.error_output = last_render.error_msg
      /\ raised.error_output # None
      /\ raised.scene_name = last_render.scene_name
      /\ raised.scene_name # None

\* the budget is used up and the last render call timed out
C4_Witness ==
    /\ BudgetExhausted
    /\ last_render.attempt = max_attempts
    /\ raised.error_output = "Manim rendering timed out"
    /\ raised.scene_name = "B"

\* C5: every script handed to the renderer carries as scene_name the name
\* the validator extracts from its code, also when the LLM declared another
\* name; the same holds of the script the loop is about to render.
C5_RenderedNameIsExtracted ==
    /\ last_render.attempt > 0 =>
         /\ last_render.scene_name # None
         /\ last_render.scene_name = extract_scene_name(last_render.code)
    /\ pc = "render" =>
         script_response.scene_name = extract_scene_name(script_response.code)

\* a script was rendered whose declared name differed from the extracted one
C5_Witness ==
    /\ pc = "fix"
    /\ last_render.attempt > 0
    /\ last_render.code = script_response.code
    /\ declared_scene_name # extract_scene_name(last_render.code)
    /\ last_render.scene_name = extract_scene_name(last_render.code)

C7_ReviewFailureSwallowed ==
    /\ (log # <<>> /\ log[Len(log)].op = "review") =>
         /\ pc = "render"
         /\ attempt = 1
         /\ raised = NoException
         /\ Count("render") = 0
         /\ log[Len(log)].outcome # "ok" =>
              /\ review_fell_back
              /\ script_response = before_review.content
    /\ (review_fell_back /\ last_render.attempt = 1) =>
         /\ last_render.code = before_review.content.code
         /\ last_render.scene_name = before_review.content.scene_name

\* the review call raised and attempt 1 rendered the pre-review script
C7_Witness ==
    /\ review_fell_back
    /\ last_render.attempt = 1
    /\ \E i \in Calls("review") : log[i].outcome = "llm_error"
    /\ last_render.code = before_review.content.code

\* C8 as stated: after a review fallback that returned an empty identifier,
\* every repair call is chained from the generation step's identifier and
\* that identifier is not empty.
C8_Original ==
    (/\ review_fell_back
     /\ ~Truthy(ReviewFallback(before_review.content, before_review.response_id).response_id)
     /\ Count("repair") >= 1) =>
      /\ fix_previous_response_id = before_review.response_id
      /\ Truthy(fix_previous_response_id)

\* C8 amended: after a review fallback the first repair call is chained from
\* the identifier the generation step returned, and when that identifier is
\* not empty no later repair call is chained from an empty one.
C8_FallbackKeepsChain ==
    (review_fell_back /\ Count("repair") >= 1) =>
      /\ Count("repair") = 1 => fix_previous_response_id = before_review.response_id
      /\ Truthy(before_review.response_id) => Truthy(fix_previous_response_id)

\* review fell back, generation had returned an identifier, and a second
\* repair call was made after a first one that returned no identifier
C8_Witness ==
    /\ review_fell_back
    /\ Truthy(before_review.response_id)
    /\ Count("repair") = 2
    /\ fix_previous_response_id = before_review.response_id

C10_RepairFailureIsFatal ==
    \A i \in Calls("repair") :
      log[i].outcome = "llm_error" =>
        /\ i = Len(log)
        /\ pc = "failed"
        /\ Count("render") = log[i].attempt
        /\ Count("repair") = log[i].attempt
        /\ raised.causes # <<>>
        /\ raised.causes[1] = "LLMGenerationError"

\* the repair call after the failed render of attempt 2 raised
C10_Witness ==
    /\ pc = "failed"
    /\ LastCall("repair", "llm_error")
    /\ log[Len(log)].attempt = 2
    /\ Count("render") = 2

\* the pipeline ended because the generation call or a repair call raised
LLMCallFailed ==
    /\ pc = "failed"
    /\ \/ LastCall("generate", "llm_error")
       \/ LastCall("repair", "llm_error")

\* C11: a failure of an LLM call (generation or repair) does not reach the
\* caller of generate as an error of the kind raised when the render budget
\* is exhausted that carries, like that one, a retry context: an attempt
\* number of the loop and the loop's budget as max_attempts.
C11_LLMFailureDistinguishable ==
    LLMCallFailed =>
      ~ /\ raised.kind = RenderBudgetExhausted(max_attempts, max_attempts,
                                               script_response, error_msg).kind
        /\ raised.attempt \in 1..max_attempts
        /\ raised.max_attempts = max_attempts

\* C12: the tooling check is made exactly once, as the first call of the
\* invocation, before any LLM call and any render call; when it reports the
\* tool unavailable, generate raises the installation error and no LLM
\* call, no render call and no archival is made.
C12_ToolCheckOnceAndFirst ==
    /\ Count("check_installation") = (IF pc = "check_installation" THEN 0 ELSE 1)
    /\ log # <<>> => log[1].op = "check_installation"
    /\ (log # <<>> /\ log[1].outcome = "failed") =>
         /\ Len(log) = 1
         /\ pc = "failed"
         /\ raised.kind = "ManimInstallationError"
         /\ last_saved_script_path = NoPath
         /\ result = NoOutput

\* the tool is unavailable and generate has raised
C12_Witness ==
    /\ pc = "failed"
    /\ log = <<Event("check_installation", 0, "failed")>>
    /\ raised.kind = "ManimInstallationError"

\* C13: when the archiver fails to write the script after a successful
\* render, generate still returns (nothing is raised), and the result's
\* video path, description, entry-point name and duration are those it
\* would have had the write succeeded; only script_path is absent.
C13_ArchiveFailureKeepsResult ==
    (\E i \in Calls("archive") : log[i].outcome = "failed") =>
      LET had_it_succeeded ==
            Output(script_response, last_render.video_path,
                   SaveSuccessfulScript(script_response, attempt, TRUE).path)
      IN  /\ pc = "success"
          /\ raised = NoException
          /\ result.video_path = had_it_succeeded.video_path
          /\ result.video_path = FinalPath(script_response.scene_name)
          /\ result.alt_text = had_it_succeeded.alt_text
          /\ result.scene_name = had_it_succeeded.scene_name
          /\ result.duration = had_it_succeeded.duration
          /\ had_it_succeeded.script_path # NoPath
          /\ result.script_path = NoPath
          /\ last_saved_script_path = NoPath

\* the render of attempt 2 succeeded and the script could not be written
C13_Witness ==
    /\ pc = "success"
    /\ LastCall("archive", "failed")
    /\ attempt = 2
    /\ result.script_path = NoPath
    /\ result.video_path = FinalPath("B")
    /\ result.duration = DurationOf(2)

\* C14: the archiver is invoked at most once, and only directly after the
\* render call of the same attempt reported success; on every path that
\* ends in failure the archiver was never invoked and no script was written.
C14_ArchiveOnlyAfterSuccess ==
    /\ Count("archive") <= 1
    /\ \A i \in Calls("archive") :
         /\ i > 1
         /\ log[i - 1] = Event("render", log[i].attempt, "ok")
         /\ i = Len(log)
    /\ pc # "success" =>
         /\ Count("archive") = 0
         /\ last_saved_script_path = NoPath

\* the script was written after the successful render of attempt 3
C14_Witness ==
    /\ pc = "success"
    /\ Count("archive") = 1
    /\ LastCall("archive", "ok")
    /\ Len(log) > 1
    /\ log[Len(log) - 1] = Event("render", 3, "ok")
    /\ last_saved_script_path = ScriptPath(script_response.scene_name, 3)

\* C18: on success the result describes the script handed to the render
\* call that succeeded (the loop's script after review and repairs): its
\* alt_text, scene_name and duration are that script's description,
\* scene_name and estimated_duration, and its video_path is the path that
\* render call returned.
C18_ResultDescribesRenderedScript ==
    pc = "success" =>
      /\ last_render.success
      /\ last_render.attempt = attempt
      /\ last_render.code = script_response.code
      /\ last_render.scene_name = script_response.scene_name
      /\ result.scene_name = last_render.scene_name
      /\ result.alt_text = script_response.description
      /\ result.duration = script_response.estimated_duration
      /\ result.video_path = last_render.video_path
      /\ result.video_path # NoPath

\* the render of attempt 2 succeeded on a repaired script that differs in
\* name, description and duration from the script first generated
C18_Witness ==
    /\ pc = "success"
    /\ attempt = 2
    /\ review_fell_back
    /\ result.scene_name # before_review.content.scene_name
    /\ result.alt_text # before_review.content.description
    /\ result.duration # before_review.content.estimated_duration
    /\ result.video_path = FinalPath(last_render.scene_name)

\* C19: every failure raised once the loop has been entered (validation
\* error of a repaired script, repair-call error, render budget exhausted)
\* is a single AnimationRenderError whose context holds the attempt at
\* which the loop stopped (the attempt whose render failed, or the one the
\* repair was preparing), the loop's max_attempts, the scene_name of the
\* loop's script and the diagnostic of the last render call.
C19_FailureContextIsReal ==
    (pc = "failed" /\ attempt >= 1) =>
      /\ raised.kind = "AnimationRenderError"
      /\ raised.attempt \in {attempt, attempt + 1}
      /\ raised.max_attempts = max_attempts
      /\ raised.scene_name = script_response.scene_name
      /\ raised.error_output = error_msg

\* C16: for every source text that parses and holds exactly one class with
\* a recognized scene base (Scene, MovingCameraScene or ThreeDScene as a
\* plain name or as the attribute of a qualified name), extract_scene_name
\* returns the name of that class; for every source text that parses and
\* holds no such class it returns None.
C16_ExtractsTheOneSceneClass ==
    (call.fn = "extract_scene_name" /\ call.done /\ call.args[1].parses) =>
      LET classes == call.args[1].classes
          Recognized(base) ==
            /\ base.kind \in {"Name", "Attribute"}
            /\ base.id \in {"Scene", "MovingCameraScene", "ThreeDScene"}
          scenes == { i \in DOMAIN classes :
                        \E j \in DOMAIN classes[i].bases : Recognized(classes[i].bases[j]) }
      IN  /\ Cardinality(scenes) = 1 => \A i \in scenes : call.ret = classes[i].name
          /\ scenes = {} => call.ret = None

\* class A(make(MovingCameraScene)) followed by class B(Helper, manim.ThreeDScene):
\* B is the one scene class and the second in walk order
C16_Witness ==
    /\ call.fn = "extract_scene_name"
    /\ call.done
    /\ call.args[1].parses
    /\ call.args[1].classes =
         << ClassDef("A", <<OtherBase("MovingCameraScene")>>),
            ClassDef("B", <<NameBase("Helper"), AttributeBase("ThreeDScene")>>) >>
    /\ call.ret = "B"

\* C17: for a source text that does not parse, extract_scene_name hands its
\* caller a parse failure: an outcome other than the None it returns when
\* the text holds no scene class.
C17_ParseFailurePropagates ==
    (call.fn = "extract_scene_name" /\ call.done /\ ~call.args[1].parses) =>
      call.ret # extract_scene_name(SrcNoScene)

\* what stands in a returned filename between the timestamp with its
\* underscore and the underscore before the entry-point name
PromptFragment ==
    SubSeq(call.ret, Len(call.args[4]) + 2,
           Len(call.ret) - Len(<<"_">> \o call.args[2] \o AttemptSuffix(call.args[3])
                                 \o <<".", "p", "y">>))

\* the filename without its extension ".py"
FilenameStem ==
    SubSeq(call.ret, 1, Len(call.ret) - 3)

\* lower-case letters and digits, the hyphen and the underscore
SanitizedSet ==
    {"a", "b", "c", "d", "e", "f", "g", "h", "i", "j", "k", "l", "m", "n", "o", "p", "q",
     "r", "s", "t", "u", "v", "w", "x", "y", "z",
     "0", "1", "2", "3", "4", "5", "6", "7", "8", "9", "-", "_"}

\* C15 as stated: the filename's prompt fragment has at most
\* MAX_FILENAME_LENGTH characters, and the filename (its extension aside)
\* holds only lower-case letters, digits, hyphens and underscores.
C15_Original ==
    (call.fn = "_generate_script_filename" /\ call.done) =>
      /\ Len(PromptFragment) <= MAX_FILENAME_LENGTH
      /\ \A i \in DOMAIN FilenameStem : FilenameStem[i] \in SanitizedSet

\* C15 amended: the filename's prompt fragment has at most
\* MAX_FILENAME_LENGTH characters, each of them a lower-case letter, a
\* digit, a hyphen, an underscore or a letter without case; the filename is
\* the timestamp, the fragment, and the entry-point name as it is, joined
\* by underscores, then the attempt suffix and ".py".
C15_PromptFragmentSanitized ==
    (call.fn = "_generate_script_filename" /\ call.done) =>
      /\ Len(PromptFragment) <= MAX_FILENAME_LENGTH
      /\ \A i \in DOMAIN PromptFragment :
           PromptFragment[i] \in SanitizedSet \cup {"U+4E2D"}
      /\ call.ret = call.args[4] \o <<"_">> \o PromptFragment \o <<"_">> \o call.args[2]
                      \o AttemptSuffix(call.args[3]) \o <<".", "p", "y">>

\* a prompt of 60 characters, blanks and capitals, cut to the maximum
\* length less the trailing underscore
C15_Witness ==
    /\ call.fn = "_generate_script_filename"
    /\ call.done
    /\ call.args[1] = Repeat(<<"Q", " ">>, MaxRepeats)
    /\ Len(call.args[1]) > MAX_FILENAME_LENGTH
    /\ Len(PromptFragment) = MAX_FILENAME_LENGTH - 1
    /\ PromptFragment[1] = "q"
    /\ PromptFragment[2] = "_"

ImportedPackages(code) ==
    { i.module[1] : i \in { x \in code.imports : x.module # <<>> } }

\* the names a script calls as plain names
CalledNames(code) ==
    { c.id : c \in { x \in code.calls : x.kind = "Name" } }

\* C24: a script that imports os, subprocess, sys or shutil, or that calls
\* open, exec, eval or __import__, is rejected by validate_code with the
\* dangerous-operations diagnostic, and render_animation returns a failure
\* for it without launching the rendering process.
C24_UnsafeScriptNeverLaunched ==
    (/\ call.fn = "render_animation"
     /\ call.done
     /\ call.args[1].parses
     /\ \/ ImportedPackages(call.args[1]) \cap DANGEROUS_IMPORTS # {}
        \/ CalledNames(call.args[1]) \cap DANGEROUS_FUNCTIONS # {})
      => /\ ~validate_code(call.args[1]).is_valid
         /\ ~call.ret.success
         /\ ~call.ret.launched
         /\ call.ret.error_msg = "Potentially dangerous operations detected"

\* ------------------------------------------------------------------- C26

\* the render call made last exceeded the timeout and nothing followed yet
TimedOutRender ==
    /\ LastCall("render", "failed")
    /\ last_render.error_msg = "Manim rendering timed out"

\* C26: a render attempt that exceeds the timeout is a render failure like
\* any other: render_animation returns a failure with the diagnostic and
\* raises nothing, the attempt is counted, and the loop goes on to the
\* repair call exactly when the attempt number is below max_attempts; on
\* the last attempt it raises the budget failure carrying the diagnostic.
C26_TimeoutIsARenderFailure ==
    TimedOutRender
      => /\ ~last_render.success
         /\ last_render.launched
         /\ last_render.video_path = NoPath
         /\ error_msg = last_render.error_msg
         /\ last_render.attempt = attempt
         /\ Count("render") = attempt
         /\ (pc = "fix") <=> (attempt < max_attempts)
         /\ (pc = "failed") <=> (attempt = max_attempts)
         /\ pc \in {"fix", "failed"}
         /\ pc = "fix" => raised = NoException
         /\ pc = "failed"
              => raised = RenderBudgetExhausted(attempt, max_attempts, script_response,
                                                "Manim rendering timed out")

\* a timeout on the last attempt, after a timeout that was repaired
C26_Witness ==
    /\ TimedOutRender
    /\ attempt = max_attempts
    /\ pc = "failed"
    /\ Count("repair") = max_attempts - 1

\* ------------------------------------------------------------------- C23

\* C23: SubjectMatterAgent reports its failures as RuntimeError:
\* process_with_timeout raises a RuntimeError whose message says it timed
\* out when generate does not end within the timeout, and generate raises a
\* RuntimeError whose message says "Subject matter analysis failed" when a
\* stage raises.
C23_FailuresAreRuntimeErrors ==
    /\ (/\ call.fn = "process_with_timeout"
        /\ call.done
        /\ TimesOut(call.args[1], call.args[2]))
         => /\ call.ret.raises
            /\ call.ret.exc.message = "Subject matter processing timed out"
            /\ IsInstance(call.ret.exc, "RuntimeError")
    /\ (/\ call.fn = "generate"
        /\ call.done
        /\ \E i \in 1..NumStages : ~call.args[1][i].ok)
         => /\ call.ret.raises
            /\ call.ret.exc.message = "Subject matter analysis failed"
            /\ IsInstance(call.ret.exc, "RuntimeError")

\* ------------------------------------------------------------------- C21

\* C21: when invocations of generate overlap on one generator object, the
\* script location in each success result is the location written by that
\* invocation's own archival (none when its archival wrote nothing), never
\* the location written by another invocation.
C21_ResultNamesOwnScript ==
    \A t \in DOMAIN tasks :
      tasks[t].pc = "success" => tasks[t].result.script_path = tasks[t].wrote

\* both invocations succeeded and saved, the first while the second was
\* under way, and the attribute they share holds the second's location
C21_Witness ==
    /\ DOMAIN tasks = Invocations
    /\ \A t \in Invocations : tasks[t].pc = "success" /\ tasks[t].wrote # NoPath
    /\ tasks["first"].overlapped
    /\ tasks["first"].wrote # tasks["second"].wrote
    /\ last_saved_script_path = tasks["second"].wrote
    /\ tasks["first"].result.script_path = tasks["first"].wrote

\* ------------------------------------------------------------------- C22

\* C22: a script file, once written by the archiver, is never overwritten
\* or modified by a later archival of the same, a later or a concurrent
\* invocation, also when two successes have the same prompt and entry
\* point.
C22_SavedScriptNeverOverwritten ==
    [][\A f \in DOMAIN disk.scripts :
         /\ f \in DOMAIN disk'.scripts
         /\ disk'.scripts[f] = disk.scripts[f]]_vars

\* ------------------------------------------------------------------- C27

\* C27: the header of every saved script records the attempt and the
\* budget truthfully: the budget written is the loop's max_attempts, and
\* the attempt written never exceeds the budget written.
C27_HeaderRecordsBudget ==
    \A f \in DOMAIN disk.scripts :
      /\ disk.scripts[f].header.budget = max_attempts
      /\ disk.scripts[f].header.attempt \in 1..max_attempts
      /\ disk.scripts[f].header.attempt <= disk.scripts[f].header.budget

\* ------------------------------------------------------------------- C29

\* C29: two successful invocations using the same output directory whose
\* final scripts have the same entry-point name do not end up with one
\* artifact path that holds the render of only one of them.
C29_ArtifactNotOverwritten ==
    \A t \in DOMAIN tasks : \A u \in DOMAIN tasks \ {t} :
      (/\ tasks[t].pc = "success"
       /\ tasks[u].pc = "success"
       /\ tasks[t].result.scene_name = tasks[u].result.scene_name)
        => tasks[t].result.video_path # tasks[u].result.video_path

\* ------------------------------------------------------------------- C25

\* enhancement was requested and the brief expander's call returned
BriefSucceeded ==
    /\ enhance
    /\ \E i \in Calls("brief") : log[i].attempt = NumStages /\ log[i].outcome = BoolOutcome(TRUE)

\* C25: when enhancement is requested and the brief expander succeeds, the
\* expander has been invoked once and the loop then makes exactly one
\* generation call, chained from the expander's continuation; when
\* enhancement is not requested the expander is never called and the
\* generation call carries no continuation.
C25_BriefThenOneGeneration ==
    /\ BriefSucceeded
         => /\ Count("brief") = NumStages
            /\ pc \notin {"check_installation", "create_prompt"}
            /\ pc \in {"review", "render", "fix", "success", "failed"}
                 => Count("generate") = 1
            /\ subject_matter_response_id \notin {NoneId, EmptyId}
    /\ ~enhance
         => /\ Count("brief") = 0
            /\ Count("generate") <= 1
            /\ subject_matter_response_id = NoneId

\* ------------------------------------------------------------------- C28

\* the longest run: tool check, generation, review, max_attempts renders
\* with a repair between each, and the archival
MaxSteps ==
    2 * max_attempts + 3

\* C28: provided every collaborator call returns or fails, every
\* invocation reaches exactly one terminal outcome, a result or a raised
\* failure, within a bounded number of steps and stays there; it never
\* goes beyond max_attempts and never leaves the loop by the "Unexpected
\* error in retry loop" exit.
C28_LoopTerminates ==
    /\ <>(pc \in {"success", "failed"})
    /\ [](/\ attempt <= max_attempts
          /\ Count("render") <= max_attempts
          /\ Len(log) <= MaxSteps
          /\ raised.message # UnexpectedLoopExit.message
          /\ pc = "success" => (raised = NoException /\ result # NoOutput)
          /\ pc = "failed" => (raised # NoException /\ result = NoOutput))
    /\ [][pc \notin {"success", "failed"}]_vars

\* the longest run there is: success on the last attempt
C28_Witness ==
    /\ pc = "success"
    /\ attempt = max_attempts
    /\ Len(log) = MaxSteps

\* ------------------------------------------------------------------- C30

\* the runs of generate, so far, in which the loop made its generation call
LoopRuns ==
    cli.loops + (IF Calls("generate") # {} THEN 1 ELSE 0)

\* the render attempts made so far by all runs of generate
TotalRenders ==
    cli.renders + Count("render")

====
